---- MODULE Spec2Model ----
(***************************************************************************)
(* The koto runtime value model: runtime/src/value.rs (Value, its          *)
(* equality, ordering and display, and the reference helpers) and          *)
(* runtime/src/meta_map.rs (meta_id_to_key).                               *)
(*                                                                         *)
(* A Value is a record with a tag (the enum discriminant) and the          *)
(* variant's payload.  Shared mutable cells (Rc<RefCell<Value>>) live in   *)
(* `heap`: cell c holds heap[c], and Value::Ref is a handle on a cell.     *)
(* `frame` is the call in progress: the operation, its arguments and what  *)
(* it returned.                                                            *)
(***************************************************************************)
EXTENDS Integers, Sequences, FiniteSets, TLC

VARIABLES heap, frame

vars == <<heap, frame>>

\* The number of Ref cells the model allocates.
MaxCells == 3

(***************************************************************************)
(* Option<T>, Ordering, and the two ways a call ends.                      *)
(***************************************************************************)
None == <<>>

Some(x) == <<x>>

Returned(v) == [panic |-> FALSE, value |-> v]

Panicked(msg) == [panic |-> TRUE, msg |-> msg]

\* Option::unwrap
Unwrap(opt) ==
    IF opt = None THEN Panicked("called Option::unwrap() on a None value")
    ELSE Returned(opt[1])

(***************************************************************************)
(* f64: a finite number x, or NaN.                                         *)
(***************************************************************************)
F64(x) == [nan |-> FALSE, x |-> x]

NaN == [nan |-> TRUE, x |-> 0]

is_nan(a) == a.nan

\* f64 == f64 (IEEE: NaN equals nothing, itself included)
F64Eq(a, b) == ~a.nan /\ ~b.nan /\ a.x = b.x

\* f64::partial_cmp (IEEE: None when either side is NaN)
F64PartialCmp(a, b) ==
    IF a.nan \/ b.nan THEN None
    ELSE IF a.x < b.x THEN Some("Less")
    ELSE IF a.x = b.x THEN Some("Equal")
    ELSE Some("Greater")

\* String::cmp, lexicographic over the text (a sequence of character codes)
RECURSIVE StringCmp(_, _)
StringCmp(a, b) ==
    IF a = <<>> /\ b = <<>> THEN "Equal"
    ELSE IF a = <<>> THEN "Less"
    ELSE IF b = <<>> THEN "Greater"
    ELSE IF Head(a) < Head(b) THEN "Less"
    ELSE IF Head(a) > Head(b) THEN "Greater"
    ELSE StringCmp(Tail(a), Tail(b))

(***************************************************************************)
(* Value and its variants.                                                 *)
(***************************************************************************)
Empty == [tag |-> "Empty"]

Bool(b) == [tag |-> "Bool", b |-> b]

Number(n) == [tag |-> "Number", n |-> n]

Vec4(v) == [tag |-> "Vec4", v |-> v]

List(items) == [tag |-> "List", items |-> items]

Range(start, end) == [tag |-> "Range", start |-> start, end |-> end]

IndexRange(start, end) == [tag |-> "IndexRange", start |-> start, end |-> end]

Map(keys) == [tag |-> "Map", keys |-> keys]

Str(s) == [tag |-> "Str", s |-> s]

Ref(c) == [tag |-> "Ref", cell |-> c]

Function(p) == [tag |-> "Function", ptr |-> p]

BuiltinFunction(p, inst) ==
    [tag |-> "BuiltinFunction", function |-> p, is_instance_function |-> inst]

BuiltinValue(p) == [tag |-> "BuiltinValue", obj |-> p]

For(p) == [tag |-> "For", ast |-> p]

While(p) == [tag |-> "While", ast |-> p]

\* std::mem::discriminant
discriminant(v) == v.tag

\* The Function allocations: Rc<Function> 1 and 2 were built independently from
\* the same parameters and body.
FunctionPtrs == {1, 2}

FunctionDef(p) == [args |-> <<"n">>, body |-> "n + 1"]

\* The values that are not a Ref, some of every variant.
BaseValues ==
    {Empty, Bool(TRUE), Bool(FALSE),
     Number(F64(0)), Number(F64(1)), Number(NaN),
     Vec4(<<0, 0, 0, 1>>), Vec4(<<0, 1, 0, 0>>),
     List(<<1, 2>>), Range(0, 5), IndexRange(2, None),
     Map(<<1, 2>>), Str(<<1>>), Str(<<1, 2>>),
     BuiltinFunction(1, FALSE), BuiltinValue(1), For(1), While(1)}
    \cup {Function(p) : p \in FunctionPtrs}

\* The values given to a call: the above, and a handle on every cell of h.
Inputs(h) == BaseValues \cup {Ref(c) : c \in 1..Len(h)}

\* The values the cells are given.
CellInputs(h) ==
    {Empty, Bool(TRUE), Number(F64(1)), Number(NaN), Str(<<1>>), Function(1)}
    \cup {Ref(c) : c \in 1..Len(h)}

(***************************************************************************)
(* Display for Value                                                       *)
(***************************************************************************)
DigitString(d) ==
    CASE d = 0 -> "0" [] d = 1 -> "1" [] d = 2 -> "2" [] d = 3 -> "3"
      [] d = 4 -> "4" [] d = 5 -> "5" [] d = 6 -> "6" [] d = 7 -> "7"
      [] d = 8 -> "8" [] d = 9 -> "9"

\* to_string of an integer (and of a float holding one)
RECURSIVE IntToString(_)
IntToString(n) ==
    IF n < 0 THEN "-" \o IntToString(0 - n)
    ELSE IF n < 10 THEN DigitString(n)
    ELSE IntToString(n \div 10) \o DigitString(n % 10)

\* f64::to_string
F64ToString(a) == IF a.nan THEN "NaN" ELSE IntToString(a.x)

CharString(c) == CASE c = 1 -> "a" [] c = 2 -> "b" [] OTHER -> "?"

\* the text of a String, from its character codes
RECURSIVE StringText(_)
StringText(s) ==
    IF s = <<>> THEN "" ELSE CharString(Head(s)) \o StringText(Tail(s))

\* to_string of a ValueList
RECURSIVE ValueListItems(_)
ValueListItems(items) ==
    IF items = <<>> THEN ""
    ELSE IF Len(items) = 1 THEN IntToString(items[1])
    ELSE IntToString(Head(items)) \o ", " \o ValueListItems(Tail(items))

ValueListToString(items) == "[" \o ValueListItems(items) \o "]"

\* the loop over m.0.iter() of the Map arm; first is the loop's flag
RECURSIVE MapKeys(_, _)
MapKeys(keys, first) ==
    IF keys = <<>> THEN ""
    ELSE (IF first THEN " " ELSE ", ")
         \o IntToString(Head(keys)) \o MapKeys(Tail(keys), FALSE)

\* {:?} of the raw pointer of allocation p
PointerString(p) == "0x" \o IntToString(p)

\* BuiltinValue::to_string of foreign object p
BuiltinValueToString(p) == "builtin value " \o IntToString(p)

deref_value(h, value) ==
    IF value.tag = "Ref" THEN h[value.cell] ELSE value

RECURSIVE Display(_, _)
Display(h, self) ==
    CASE self.tag = "Empty" -> "()"
      [] self.tag = "Bool" -> IF self.b THEN "true" ELSE "false"
      [] self.tag = "Number" -> F64ToString(self.n)
      [] self.tag = "Vec4" ->
            "(" \o IntToString(self.v[1]) \o ", " \o IntToString(self.v[2]) \o ", "
                \o IntToString(self.v[3]) \o ", " \o IntToString(self.v[4]) \o ")"
      [] self.tag = "Str" -> StringText(self.s)
      [] self.tag = "List" -> ValueListToString(self.items)
      [] self.tag = "Map" -> "{" \o MapKeys(self.keys, TRUE) \o " }"
      [] self.tag = "Range" ->
            "[" \o IntToString(self.start) \o ".." \o IntToString(self.end) \o "]"
      [] self.tag = "IndexRange" ->
            "[" \o IntToString(self.start) \o ".."
                \o (IF self.end = None THEN "" ELSE IntToString(self.end[1])) \o "]"
      [] self.tag = "Ref" -> "Ref " \o Display(h, deref_value(h, h[self.cell]))
      [] self.tag = "Function" -> "Function: " \o PointerString(self.ptr)
      [] self.tag = "BuiltinFunction" ->
            "Builtin function: " \o PointerString(self.function)
      [] self.tag = "BuiltinValue" -> BuiltinValueToString(self.obj)
      [] self.tag = "For" -> "For loop"
      [] self.tag = "While" -> "While loop"

(***************************************************************************)
(* PartialEq for Value                                                     *)
(***************************************************************************)
\* Vec4 == Vec4 (derived: componentwise)
Vec4Eq(a, b) == a = b

\* ValueList == ValueList and ValueMap == ValueMap: by contents
ValueListEq(a, b) == a = b

ValueMapEq(a, b) == a = b

\* Function equality by parameters and body, as a == on the Rc<Function> would be.
FunctionStructuralEq(a, b) == FunctionDef(a) = FunctionDef(b)

\* Rc::ptr_eq on two Rc<Function>: the same allocation
FunctionPtrEq(a, b) == a = b

\* eq without its (_, Ref(b)) arm: a Ref on the right is not looked through.
RECURSIVE eq_no_right_ref_arm(_, _, _)
eq_no_right_ref_arm(h, self, other) ==
    IF self.tag = "Number" /\ other.tag = "Number" THEN F64Eq(self.n, other.n)
    ELSE IF self.tag = "Vec4" /\ other.tag = "Vec4" THEN Vec4Eq(self.v, other.v)
    ELSE IF self.tag = "Bool" /\ other.tag = "Bool" THEN self.b = other.b
    ELSE IF self.tag = "Str" /\ other.tag = "Str" THEN self.s = other.s
    ELSE IF self.tag = "List" /\ other.tag = "List"
        THEN ValueListEq(self.items, other.items)
    ELSE IF self.tag = "Map" /\ other.tag = "Map"
        THEN ValueMapEq(self.keys, other.keys)
    ELSE IF self.tag = "Ref" /\ other.tag = "Ref"
        THEN eq_no_right_ref_arm(h, h[self.cell], h[other.cell])
    ELSE IF self.tag = "Ref" THEN eq_no_right_ref_arm(h, h[self.cell], other)
    ELSE IF self.tag = "Function" /\ other.tag = "Function"
        THEN FunctionPtrEq(self.ptr, other.ptr)
    ELSE FALSE

RECURSIVE eq(_, _, _)
eq(h, self, other) ==
    IF self.tag = "Number" /\ other.tag = "Number" THEN F64Eq(self.n, other.n)
    ELSE IF self.tag = "Vec4" /\ other.tag = "Vec4" THEN Vec4Eq(self.v, other.v)
    ELSE IF self.tag = "Bool" /\ other.tag = "Bool" THEN self.b = other.b
    ELSE IF self.tag = "Str" /\ other.tag = "Str" THEN self.s = other.s
    ELSE IF self.tag = "List" /\ other.tag = "List"
        THEN ValueListEq(self.items, other.items)
    ELSE IF self.tag = "Map" /\ other.tag = "Map"
        THEN ValueMapEq(self.keys, other.keys)
    ELSE IF self.tag = "Ref" /\ other.tag = "Ref"
        THEN eq(h, h[self.cell], h[other.cell])
    ELSE IF self.tag = "Ref" THEN eq(h, h[self.cell], other)
    ELSE IF other.tag = "Ref" THEN eq(h, self, h[other.cell])
    ELSE IF self.tag = "Function" /\ other.tag = "Function"
        THEN FunctionPtrEq(self.ptr, other.ptr)
    ELSE FALSE

(***************************************************************************)
(* values_have_matching_type, make_reference                               *)
(***************************************************************************)
values_have_matching_type(h, a, b) ==
    IF a.tag = "Ref" /\ b.tag = "Ref"
        THEN discriminant(h[a.cell]) = discriminant(h[b.cell])
    ELSE IF a.tag = "Ref" THEN discriminant(h[a.cell]) = discriminant(b)
    ELSE IF b.tag = "Ref" THEN discriminant(a) = discriminant(h[b.cell])
    ELSE discriminant(a) = discriminant(b)

\* make_reference without its Ref arm: every call wraps its argument in a new cell.
make_reference_always_wraps(h, value) ==
    [value |-> Ref(Len(h) + 1), created |-> TRUE, heap |-> Append(h, value)]

\* The pair returned, and the cells after the call.
make_reference(h, value) ==
    IF value.tag = "Ref"
        THEN [value |-> value, created |-> FALSE, heap |-> h]
    ELSE [value |-> Ref(Len(h) + 1), created |-> TRUE, heap |-> Append(h, value)]

(***************************************************************************)
(* PartialOrd and Ord for Value                                            *)
(***************************************************************************)
\* Vec4::partial_cmp (derived: the first component that differs decides)
RECURSIVE Vec4PartialCmp(_, _)
Vec4PartialCmp(a, b) ==
    IF a = <<>> THEN Some("Equal")
    ELSE IF Head(a) < Head(b) THEN Some("Less")
    ELSE IF Head(a) > Head(b) THEN Some("Greater")
    ELSE Vec4PartialCmp(Tail(a), Tail(b))

partial_cmp(h, self, other) ==
    IF self.tag = "Number" /\ other.tag = "Number"
        THEN Returned(F64PartialCmp(self.n, other.n))
    ELSE IF self.tag = "Vec4" /\ other.tag = "Vec4"
        THEN Returned(Vec4PartialCmp(self.v, other.v))
    ELSE IF self.tag = "Str" /\ other.tag = "Str"
        THEN Returned(Some(StringCmp(self.s, other.s)))
    ELSE Panicked("partial_cmp unsupported for " \o Display(h, self)
                  \o " and " \o Display(h, other))

\* cmp without its NaN arms: two Numbers go straight to partial_cmp().unwrap().
cmp_without_nan_arms(h, self, other) ==
    IF self.tag = "Number" /\ other.tag = "Number"
        THEN Unwrap(F64PartialCmp(self.n, other.n))
    ELSE IF self.tag = "Str" /\ other.tag = "Str"
        THEN Returned(StringCmp(self.s, other.s))
    ELSE Panicked("cmp unsupported for " \o Display(h, self)
                  \o " and " \o Display(h, other))

cmp(h, self, other) ==
    IF self.tag = "Number" /\ other.tag = "Number" THEN
        LET a == self.n
            b == other.n
        IN  IF is_nan(a) /\ is_nan(b) THEN Returned("Equal")
            ELSE IF ~is_nan(a) /\ is_nan(b) THEN Returned("Less")
            ELSE IF is_nan(a) /\ ~is_nan(b) THEN Returned("Greater")
            ELSE Unwrap(F64PartialCmp(a, b))
    ELSE IF self.tag = "Str" /\ other.tag = "Str"
        THEN Returned(StringCmp(self.s, other.s))
    ELSE Panicked("cmp unsupported for " \o Display(h, self)
                  \o " and " \o Display(h, other))

(***************************************************************************)
(* MetaKey and meta_id_to_key                                              *)
(***************************************************************************)
MetaKeyBinaryOp(op) == [kind |-> "BinaryOp", op |-> op]

MetaKeyUnaryOp(op) == [kind |-> "UnaryOp", op |-> op]

\* MetaKey::Test(ValueString): name.into() keeps the text
MetaKeyTest(name) == [kind |-> "Test", name |-> name]

MetaKeyUnit(kind) == [kind |-> kind]

Ok(v) == [ok |-> TRUE, value |-> v]

Err(e) == [ok |-> FALSE, error |-> e]

MetaKeyIds ==
    {"Add", "Subtract", "Multiply", "Divide", "Modulo", "Less", "LessOrEqual",
     "Greater", "GreaterOrEqual", "Equal", "NotEqual", "Index", "Negate",
     "Display", "Tests", "Test", "PreTest", "PostTest", "Type", "Invalid"}

\* The names given to meta_id_to_key: Option<&str>
TestNames == {None} \cup {Some(s) : s \in {"a", "b", "c", "Add", "Tests"}}

\* meta_id_to_key with the GreaterOrEqual arm a copy of the Greater arm, and a
\* Test without a name given an empty one.
meta_id_to_key_slips(id, name) ==
    CASE id = "Add" -> Ok(MetaKeyBinaryOp("Add"))
      [] id = "Subtract" -> Ok(MetaKeyBinaryOp("Subtract"))
      [] id = "Multiply" -> Ok(MetaKeyBinaryOp("Multiply"))
      [] id = "Divide" -> Ok(MetaKeyBinaryOp("Divide"))
      [] id = "Modulo" -> Ok(MetaKeyBinaryOp("Modulo"))
      [] id = "Less" -> Ok(MetaKeyBinaryOp("Less"))
      [] id = "LessOrEqual" -> Ok(MetaKeyBinaryOp("LessOrEqual"))
      [] id = "Greater" -> Ok(MetaKeyBinaryOp("Greater"))
      [] id = "GreaterOrEqual" -> Ok(MetaKeyBinaryOp("Greater"))
      [] id = "Equal" -> Ok(MetaKeyBinaryOp("Equal"))
      [] id = "NotEqual" -> Ok(MetaKeyBinaryOp("NotEqual"))
      [] id = "Index" -> Ok(MetaKeyBinaryOp("Index"))
      [] id = "Negate" -> Ok(MetaKeyUnaryOp("Negate"))
      [] id = "Display" -> Ok(MetaKeyUnaryOp("Display"))
      [] id = "Tests" -> Ok(MetaKeyUnit("Tests"))
      [] id = "Test" -> Ok(MetaKeyTest(IF name = None THEN "" ELSE name[1]))
      [] id = "PreTest" -> Ok(MetaKeyUnit("PreTest"))
      [] id = "PostTest" -> Ok(MetaKeyUnit("PostTest"))
      [] id = "Type" -> Ok(MetaKeyUnit("Type"))
      [] id = "Invalid" -> Err("Invalid MetaKeyId")

meta_id_to_key(id, name) ==
    CASE id = "Add" -> Ok(MetaKeyBinaryOp("Add"))
      [] id = "Subtract" -> Ok(MetaKeyBinaryOp("Subtract"))
      [] id = "Multiply" -> Ok(MetaKeyBinaryOp("Multiply"))
      [] id = "Divide" -> Ok(MetaKeyBinaryOp("Divide"))
      [] id = "Modulo" -> Ok(MetaKeyBinaryOp("Modulo"))
      [] id = "Less" -> Ok(MetaKeyBinaryOp("Less"))
      [] id = "LessOrEqual" -> Ok(MetaKeyBinaryOp("LessOrEqual"))
      [] id = "Greater" -> Ok(MetaKeyBinaryOp("Greater"))
      [] id = "GreaterOrEqual" -> Ok(MetaKeyBinaryOp("GreaterOrEqual"))
      [] id = "Equal" -> Ok(MetaKeyBinaryOp("Equal"))
      [] id = "NotEqual" -> Ok(MetaKeyBinaryOp("NotEqual"))
      [] id = "Index" -> Ok(MetaKeyBinaryOp("Index"))
      [] id = "Negate" -> Ok(MetaKeyUnaryOp("Negate"))
      [] id = "Display" -> Ok(MetaKeyUnaryOp("Display"))
      [] id = "Tests" -> Ok(MetaKeyUnit("Tests"))
      [] id = "Test" ->
            IF name = None THEN Err("Missing name for test")
            ELSE Ok(MetaKeyTest(name[1]))
      [] id = "PreTest" -> Ok(MetaKeyUnit("PreTest"))
      [] id = "PostTest" -> Ok(MetaKeyUnit("PostTest"))
      [] id = "Type" -> Ok(MetaKeyUnit("Type"))
      [] id = "Invalid" -> Err("Invalid MetaKeyId")

(***************************************************************************)
(* The state machine: one action per call.                                 *)
(***************************************************************************)
Idle == [op |-> "idle"]

Init ==
    /\ heap = <<>>
    /\ frame = Idle

\* Whether value v leads to cell c through the cells of h.
RECURSIVE Reaches(_, _, _)
Reaches(h, v, c) ==
    /\ v.tag = "Ref"
    /\ (v.cell = c \/ Reaches(h, h[v.cell], c))

\* make_reference(x)
MakeReference ==
    /\ frame = Idle
    /\ \E x \in CellInputs(heap) :
        /\ x.tag # "Ref" => Len(heap) < MaxCells
        /\ LET r == make_reference(heap, x)
           IN  /\ heap' = r.heap
               /\ frame' = [op |-> "make_reference", a |-> x,
                            result |-> Returned(<<r.value, r.created>>)]

\* *cell.borrow_mut() = v, by the owner of a handle; the cells stay acyclic
SetRef ==
    /\ frame = Idle
    /\ \E c \in 1..Len(heap), v \in CellInputs(heap) :
        /\ ~Reaches(heap, v, c)
        /\ heap' = [heap EXCEPT ![c] = v]
    /\ UNCHANGED frame

\* a == b
Eq ==
    /\ frame = Idle
    /\ \E a \in Inputs(heap), b \in Inputs(heap) :
        frame' = [op |-> "eq", a |-> a, b |-> b,
                  result |-> Returned(eq(heap, a, b))]
    /\ UNCHANGED heap

ValuesHaveMatchingType ==
    /\ frame = Idle
    /\ \E a \in Inputs(heap), b \in Inputs(heap) :
        frame' = [op |-> "values_have_matching_type", a |-> a, b |-> b,
                  result |-> Returned(values_have_matching_type(heap, a, b))]
    /\ UNCHANGED heap

DerefValue ==
    /\ frame = Idle
    /\ \E v \in Inputs(heap) :
        frame' = [op |-> "deref_value", a |-> v,
                  result |-> Returned(deref_value(heap, v))]
    /\ UNCHANGED heap

\* format!("{}", v)
Fmt ==
    /\ frame = Idle
    /\ \E v \in Inputs(heap) :
        frame' = [op |-> "fmt", a |-> v, result |-> Returned(Display(heap, v))]
    /\ UNCHANGED heap

PartialCmp ==
    /\ frame = Idle
    /\ \E a \in Inputs(heap), b \in Inputs(heap) :
        frame' = [op |-> "partial_cmp", a |-> a, b |-> b,
                  result |-> partial_cmp(heap, a, b)]
    /\ UNCHANGED heap

Cmp ==
    /\ frame = Idle
    /\ \E a \in Inputs(heap), b \in Inputs(heap) :
        frame' = [op |-> "cmp", a |-> a, b |-> b, result |-> cmp(heap, a, b)]
    /\ UNCHANGED heap

\* meta_id_to_key(id, name); it reads and writes no Value
MetaIdToKey ==
    /\ \E id \in MetaKeyIds, name \in TestNames :
        frame' = [op |-> "meta_id_to_key", id |-> id, name |-> name,
                  result |-> Returned(meta_id_to_key(id, name))]
    /\ UNCHANGED heap

\* The call returns to its caller; a panic does not.
Return ==
    /\ frame # Idle
    /\ ~frame.result.panic
    /\ frame' = Idle
    /\ UNCHANGED heap

Next ==
    \/ MakeReference
    \/ SetRef
    \/ Eq
    \/ ValuesHaveMatchingType
    \/ DerefValue
    \/ Fmt
    \/ Return

Spec == Init /\ [][Next]_vars

\* The ordering calls, over the values and the cells make_reference allocates.
NextOrd ==
    \/ MakeReference
    \/ PartialCmp
    \/ Cmp
    \/ Return

SpecOrd == Init /\ [][NextOrd]_vars

\* The calls of meta_id_to_key.
NextMeta == MetaIdToKey

SpecMeta == Init /\ [][NextMeta]_vars

(***************************************************************************)
(* The properties.                                                         *)
(***************************************************************************)
\* The innermost value that is not a Ref, through every cell on the way.
RECURSIVE Innermost(_, _)
Innermost(h, v) == IF v.tag = "Ref" THEN Innermost(h, h[v.cell]) ELSE v

\* The number of Ref wraps around the innermost value.
RECURSIVE Depth(_, _)
Depth(h, v) == IF v.tag = "Ref" THEN 1 + Depth(h, h[v.cell]) ELSE 0

\* C1: a value under n >= 1 Ref wraps equals the value itself, in both argument
\* orders, and equals any m >= 1 wraps of the same value: a == b is true
\* whenever a or b is a Ref and both lead to the same innermost value.
C1_RefTransparentEq ==
    (/\ frame.op = "eq"
     /\ frame.a.tag = "Ref" \/ frame.b.tag = "Ref"
     /\ Innermost(heap, frame.a) = Innermost(heap, frame.b))
        => frame.result.value = TRUE

\* C2: make_reference(x) returns a Ref; for a Ref x it returns x itself (the
\* same cell), allocates nothing and reports false; otherwise it returns the
\* one new cell, holding x, and reports true; and a second call on what the
\* first returned reports false and returns the same cell, allocating nothing.
C2_MakeReferenceIdempotent ==
    /\ frame = Idle => \A x \in Inputs(heap) :
        LET r == make_reference(heap, x)
            again == make_reference(r.heap, r.value)
        IN  /\ r.value.tag = "Ref"
            /\ x.tag = "Ref" => r.value = x /\ ~r.created /\ r.heap = heap
            /\ x.tag # "Ref" =>
                /\ r.created
                /\ r.value.cell \notin DOMAIN heap
                /\ Len(r.heap) = Len(heap) + 1
                /\ r.heap[r.value.cell] = x
                /\ \A c \in DOMAIN heap : r.heap[c] = heap[c]
            /\ ~again.created /\ again.value = r.value /\ again.heap = r.heap
    /\ frame.op = "make_reference" =>
        LET value == frame.result.value[1]
            created == frame.result.value[2]
        IN  /\ value.tag = "Ref" /\ value.cell \in DOMAIN heap
            /\ created <=> frame.a.tag # "Ref"
            /\ created => heap[value.cell] = frame.a /\ value.cell = Len(heap)
            /\ ~created => value = frame.a
            /\ make_reference(heap, value)
                   = [value |-> value, created |-> FALSE, heap |-> heap]

C2_Witness ==
    /\ frame.op = "make_reference"
    /\ frame.a.tag = "Ref"
    /\ frame.result.value = <<frame.a, FALSE>>
    /\ Len(heap) = 2

\* The order of the Numbers with NaN the greatest.
NumberTotalOrder(a, b) ==
    IF a.nan /\ b.nan THEN "Equal"
    ELSE IF a.nan THEN "Greater"
    ELSE IF b.nan THEN "Less"
    ELSE IF a.x < b.x THEN "Less"
    ELSE IF a.x > b.x THEN "Greater"
    ELSE "Equal"

Reverse(o) ==
    CASE o = "Less" -> "Greater" [] o = "Greater" -> "Less" [] o = "Equal" -> "Equal"

\* C3: cmp on two Numbers never panics and is the numeric order with NaN equal
\* to NaN and greater than every other number; cmp(a, b) is the reverse of
\* cmp(b, a).
C3_NumberTotalOrder ==
    (/\ frame.op = "cmp"
     /\ frame.a.tag = "Number"
     /\ frame.b.tag = "Number")
        => /\ ~frame.result.panic
           /\ frame.result.value = NumberTotalOrder(frame.a.n, frame.b.n)
           /\ cmp(heap, frame.b, frame.a) = Returned(Reverse(frame.result.value))

C3_Witness ==
    /\ frame.op = "cmp"
    /\ frame.a = Number(NaN)
    /\ frame.b = Number(F64(1))
    /\ frame.result = Returned("Greater")

\* C4: values_have_matching_type(a, b) is true exactly when the innermost
\* values of a and b, through any depth of Ref, are of the same variant.
C4_MatchingTypeThroughRefs ==
    frame.op = "values_have_matching_type"
        => frame.result.value
             = (Innermost(heap, frame.a).tag = Innermost(heap, frame.b).tag)

Ordered(a, b) ==
    \/ a.tag = "Number" /\ b.tag = "Number"
    \/ a.tag = "Vec4" /\ b.tag = "Vec4"
    \/ a.tag = "Str" /\ b.tag = "Str"

\* C5: partial_cmp and cmp each return a result when both operands are Number,
\* both Vec4 or both Str, and panic for every other pair of variants.
C5_OrderedVariants ==
    frame.op \in {"partial_cmp", "cmp"}
        => (frame.result.panic <=> ~Ordered(frame.a, frame.b))

BinaryOps ==
    {"Add", "Subtract", "Multiply", "Divide", "Modulo", "Less", "LessOrEqual",
     "Greater", "GreaterOrEqual", "Equal", "NotEqual", "Index"}

UnaryOps == {"Negate", "Display"}

\* The key of the same name as the id.
SameNamedKey(id, name) ==
    IF id \in BinaryOps THEN [kind |-> "BinaryOp", op |-> id]
    ELSE IF id \in UnaryOps THEN [kind |-> "UnaryOp", op |-> id]
    ELSE IF id = "Test" THEN [kind |-> "Test", name |-> name[1]]
    ELSE [kind |-> id]

\* C6: meta_id_to_key(id, name) returns an error exactly when id is Test with
\* no name or id is Invalid; otherwise it returns Ok with the key of the same
\* name as id (Test carrying the name), whatever the name is for an id other
\* than Test, and two ids that do not fail never give the same key.
C6_MetaIdToKey ==
    frame.op = "meta_id_to_key" =>
        LET id == frame.id
            name == frame.name
            r == frame.result.value
        IN  /\ ~frame.result.panic
            /\ ~r.ok <=> (id = "Test" /\ name = None) \/ id = "Invalid"
            /\ r.ok => r.value = SameNamedKey(id, name)
            /\ id # "Test" => \A n \in TestNames : meta_id_to_key(id, n) = r
            /\ r.ok => \A id2 \in MetaKeyIds \ {id}, n \in TestNames :
                           meta_id_to_key(id2, n) # r

C6_Witness ==
    /\ frame.op = "meta_id_to_key"
    /\ frame.id = "Test"
    /\ frame.name = None
    /\ frame.result.value = Err("Missing name for test")

\* C7: deref_value(v) is never a Ref: it is the innermost value under every
\* Ref of v (v itself when v is no Ref).
C7_DerefValueUnwrapsFully ==
    frame.op = "deref_value"
        => /\ frame.result.value.tag # "Ref"
           /\ frame.result.value = Innermost(heap, frame.a)

\* C8: v == v is true for every Value v.
C8_EqReflexive ==
    (frame.op = "eq" /\ frame.a = frame.b) => frame.result.value = TRUE

\* C9: two Functions are equal exactly when they are the same allocation,
\* whatever their parameters and bodies, and two Functions display the same
\* text only when they are the same allocation.
C9_FunctionIdentity ==
    /\ (frame.op = "eq" /\ frame.a.tag = "Function" /\ frame.b.tag = "Function")
        => frame.result.value = (frame.a.ptr = frame.b.ptr)
    /\ (frame.op = "fmt" /\ frame.a.tag = "Function")
        => \A p \in FunctionPtrs :
               Display(heap, Function(p)) = frame.result.value => p = frame.a.ptr

C9_Witness ==
    /\ frame.op = "eq"
    /\ frame.a = Function(1)
    /\ frame.b = Function(2)
    /\ FunctionDef(1) = FunctionDef(2)
    /\ frame.result.value = FALSE

\* C10: a == b and b == a give the same result, through any depth of Ref on
\* either side, and evaluating a == b leaves every Ref cell as it was.
C10_EqSymmetric ==
    [][frame'.op = "eq" =>
           /\ frame'.result.value = eq(heap', frame'.b, frame'.a)
           /\ heap' = heap]_vars

C10_Witness ==
    /\ frame.op = "eq"
    /\ Depth(heap, frame.a) = 2
    /\ Depth(heap, frame.b) = 0
    /\ frame.result.value = TRUE
====
